---- MODULE Spec2Model ----
(***************************************************************************)
(* starling: random MIDI melody generator (src/starling/__main__.py).      *)
(*                                                                         *)
(* The program builds a list of allowed pitches (get_scale + the octave    *)
(* scaling of the main block) and then, for every output file, calls       *)
(* build_melody, which for every track draws a list of note durations      *)
(* (get_timings), a list of pitches (gen_melody) and appends one           *)
(* note_on/note_off message pair per note to the track.                    *)
(*                                                                         *)
(* Random outcomes (random.sample, np.random.rand) are nondeterministic    *)
(* choices.  Probabilities (note_deviance and the uniform draws px) are    *)
(* represented in tenths: 0 is 0.0, 5 is 0.5, 10 is 1.0.                   *)
(*                                                                         *)
(* The flags -rests and -rand_beat have no type: argparse leaves the bool  *)
(* default when the flag is absent and stores a str when it is given, so   *)
(* `rests == True` (line 145) holds in no run started from the command     *)
(* line and `rand_beat == True` (line 82) only when -rand_beat is absent.  *)
(* Spec, SpecTimings and SpecScale start at the main block; SpecCall       *)
(* starts at a direct call build_melody(...) with bool arguments, the only *)
(* way into the rests branch (lines 146-153).                              *)
(***************************************************************************)
EXTENDS Integers, Sequences, FiniteSets

VARIABLES
    pc,           \* position in the program
    args,         \* the parsed command line (lines 217-230)
    SCALE,        \* SCALE of the main block (lines 233-239)
    oct,          \* loop variable of the octave scaling loop (line 237)
    i,            \* loop variable of the file loop (line 256)
    mid,          \* mid.tracks of the current build_melody call
    v,            \* loop variable of the track loop (line 139)
    total_steps,  \* get_timings: remaining budget (line 79)
    timings,      \* get_timings: the durations (line 80/83)
    melody        \* gen_melody: the pitches (line 104)

vars == <<pc, args, SCALE, oct, i, mid, v, total_steps, timings, melody>>

----------------------------------------------------------------------------
(* Bounds of the exploration *)

\* largest number of notes generated in one composition (all tracks together)
MaxNotes == 3
\* largest -max_length explored
MaxLength == 3
\* largest -tracks explored
MaxTracks == 2
\* largest -oct_range explored by the scale construction
MaxOctRange == 4

----------------------------------------------------------------------------
(* Helpers *)

RECURSIVE SumSeq(_)
SumSeq(s) == IF s = <<>> THEN 0 ELSE Head(s) + SumSeq(Tail(s))

Range(s) == {s[k] : k \in 1..Len(s)}

\* Python values of the untyped flags: the bools True and False, and the
\* strings argparse stores for a given flag, written with their quotes
PyTrue == "True"
PyFalse == "False"

\* x == True (lines 82, 145): a str never equals True
EqTrue(x) == x = PyTrue

\* s[:-1]
ButLast(s) == SubSeq(s, 1, Len(s) - 1)

\* int(x / d) for a positive d: truncation towards zero
IntDiv(x, d) == IF x >= 0 THEN x \div d ELSE -((-x) \div d)

\* np.cumsum
cumsum(s) == [k \in 1..Len(s) |-> SumSeq(SubSeq(s, 1, k))]

----------------------------------------------------------------------------
(* get_scale, lines 17-56 *)

SCALE_DICT ==
    [major          |-> <<2,2,1,2,2,2,1>>,
     minor          |-> <<2,1,2,2,1,2,2>>,
     chrom          |-> <<1,1,1,1,1,1,1,1,1,1,1,1>>,
     ionanian       |-> <<2,2,1,2,2,2,1>>,
     dorian         |-> <<2,1,2,2,2,1,2>>,
     phrygian       |-> <<1,2,2,2,1,2,2>>,
     lydian         |-> <<2,2,2,1,2,2,1>>,
     mixolydian     |-> <<2,2,1,2,2,1,2>>,
     aeolian        |-> <<2,1,2,2,1,2,2>>,
     locrian        |-> <<1,2,2,1,2,2,2>>,
     minor_pent     |-> <<3,2,2,3,2>>,
     major_pent     |-> <<2,2,3,2,3>>,
     pent_6         |-> <<2,2,3,1,3>>,
     pent_2         |-> <<1,3,3,2,3>>,
     pent_3         |-> <<2,1,4,2,3>>,
     pent_5         |-> <<2,2,2,3,3>>,
     mixo_pent      |-> <<2,2,3,3,2>>,
     phryg_pent     |-> <<1,2,3,1,3>>,
     dim_pent       |-> <<2,1,3,1,3>>,
     blues          |-> <<3,2,1,1,3,2>>,
     harmonic_minor |-> <<2,1,2,2,1,3,2>>,
     melodic_mimnor |-> <<2,1,2,2,1,3,2>>,
     whole_tone     |-> <<2,2,2,2,2,2>>,
     whole_half     |-> <<2,1,2,1,2,1,2,1>>,
     half_whole     |-> <<1,2,1,2,1,2,1,2>>]

get_scale(scale, key) ==
    <<key>> \o [k \in 1..Len(SCALE_DICT[scale]) |-> key + cumsum(SCALE_DICT[scale])[k]]

(* BASE_NOTE, lines 206-214 *)
BASE_NOTE ==
    [n \in {"C","C#","D","D#","E","F","F#","G","G#","A","A#","B"} |->
        CASE n = "C"  -> 60 [] n = "C#" -> 61
          [] n = "D"  -> 62 [] n = "D#" -> 63
          [] n = "E"  -> 64
          [] n = "F"  -> 65 [] n = "F#" -> 66
          [] n = "G"  -> 67 [] n = "G#" -> 68
          [] n = "A"  -> 69 [] n = "A#" -> 70
          [] n = "B"  -> 71]

\* line 233: the scale of get_scale moved by OCTAVE octaves
OctaveShift(octave, notes) == [k \in 1..Len(notes) |-> octave * 12 + notes[k]]

\* line 239, one iteration of the octave scaling loop: SCALE[:-1] is taken
\* from the list as it has grown so far
OctaveReplica(o, scale) ==
    [k \in 1..Len(ButLast(scale)) |-> 12 * o + ButLast(scale)[k]]

----------------------------------------------------------------------------
(* get_timings, lines 59-89 *)

\* lines 73-77
BEATS(beat) ==
    <<IntDiv(beat, 4), IntDiv(beat, 2), beat, beat * 2, beat * 4>>

\* line 80
UniformTimings(beat, max_length) == [k \in 1..max_length |-> beat]

LoopContinues_Inclusive(steps) == steps >= 0

\* line 84, the loop condition
LoopContinues(steps) == steps > 0

----------------------------------------------------------------------------
(* gen_melody, lines 92-111.  picks are the positions random.sample draws  *)
(* from the scale, px the uniform draws, dirs the drawn directions.        *)

\* line 107: np.argwhere(px <= note_deviance)
Deviates(p, note_deviance) == p <= note_deviance

gen_melody(scale, tms, note_deviance, picks, px, dirs) ==
    [k \in 1..Len(tms) |->
        IF Deviates(px[k], note_deviance)
        THEN scale[picks[k]] + dirs[k]
        ELSE scale[picks[k]]]

----------------------------------------------------------------------------
(* build_melody, lines 114-160 *)

Message(type, note, velocity, time) ==
    [type |-> type, note |-> note, velocity |-> velocity, time |-> time]

NextCursor_Reset(t, timing) == timing

\* line 153: the cursor after a note
NextCursor(t, timing) == t + timing

\* lines 146-153
RECURSIVE RestsTrack(_, _, _, _)
RestsTrack(mel, tms, velocity, t) ==
    IF mel = <<>> \/ tms = <<>> THEN <<>>
    ELSE <<Message("note_on", Head(mel), velocity, t),
           Message("note_off", Head(mel), velocity, Head(tms) + t)>>
         \o RestsTrack(Tail(mel), Tail(tms), velocity, NextCursor(t, Head(tms)))

PlainPair_NoOff(note, timing, velocity) ==
    <<Message("note_on", note, velocity, 1)>>

PlainPair_OffByOne(note, timing, velocity) ==
    <<Message("note_on", note, velocity, 1),
      Message("note_off", note, velocity, timing)>>

\* lines 156-159, one note
PlainPair(note, timing, velocity) ==
    <<Message("note_on", note, velocity, 1),
      Message("note_off", note, velocity, timing + 1)>>

\* lines 155-159
RECURSIVE PlainTrack(_, _, _)
PlainTrack(mel, tms, velocity) ==
    IF mel = <<>> \/ tms = <<>> THEN <<>>
    ELSE PlainPair(Head(mel), Head(tms), velocity)
         \o PlainTrack(Tail(mel), Tail(tms), velocity)

\* lines 145-159
AssembleTrack(mel, tms, velocity, rests) ==
    IF EqTrue(rests) THEN RestsTrack(mel, tms, velocity, 0)
    ELSE PlainTrack(mel, tms, velocity)

\* notes already written to the composition
NotesSoFar == SumSeq([k \in 1..Len(mid) |-> Len(mid[k]) \div 2])

----------------------------------------------------------------------------
(* Inputs *)

\* outcomes of np.random.rand explored, in tenths: exactly 0.0, 0.5 and 0.9
PxDraws == {0, 5, 9}
\* line 108
Directions == {-1, 1}
\* positions of the scale that random.sample(scale, 1) is explored over
PickPositions == {1, 2}

\* args.rand_beat after the parse (lines 191, 229): the default True, or the
\* str of `-rand_beat True` / `-rand_beat False`
RandBeatFlags == {PyTrue, "'True'", "'False'"}
\* args.rests after the parse (lines 201, 228): the default False, or the str
\* of `-rests True`
RestsFlags == {PyFalse, "'True'"}
\* the bool arguments of a direct call of build_melody
PyBools == {PyTrue, PyFalse}

AllBuildArgs(beats, rand_beats, restss) ==
    [tracks : 0..MaxTracks, note_dev : {0, 5, 10}, beat : beats,
     max_length : 1..MaxLength, rand_beat : rand_beats, vel : {100},
     rests : restss, n : {1}]

\* build_melody is explored with random timing for a budget of one beat and
\* with uniform timing for every length
OneBeatWhenRandom(argset) ==
    {a \in argset : EqTrue(a.rand_beat) => a.max_length = 1}

\* the command lines explored
BuildArgs == OneBeatWhenRandom(AllBuildArgs({4}, RandBeatFlags, RestsFlags))

\* the direct calls of build_melody explored
CallArgs == OneBeatWhenRandom(AllBuildArgs({4}, PyBools, PyBools))

\* get_timings is explored for small and ordinary beat values
TimingArgs ==
    {a \in AllBuildArgs({1, 2, 3, 4, 5, 8}, RandBeatFlags, {PyFalse}) :
        a.tracks = 1 /\ a.note_dev = 0}

ScaleArgs(scales, keys, octaves, ranges) ==
    [scale : scales, key : keys, octave : octaves, oct_range : ranges]

Join(a, b) == [f \in (DOMAIN a) \cup (DOMAIN b) |->
                  IF f \in DOMAIN a THEN a[f] ELSE b[f]]

InitWith(argset) ==
    /\ args \in argset
    /\ pc = "main"
    /\ SCALE = <<>>
    /\ oct = 1
    /\ i = 0
    /\ mid = <<>>
    /\ v = 0
    /\ total_steps = 0
    /\ timings = <<>>
    /\ melody = <<>>

Init ==
    InitWith({Join(s, b) : s \in ScaleArgs({"major"}, {"C"}, {0}, {2}),
                           b \in BuildArgs})

InitTimings ==
    InitWith({Join(s, b) : s \in ScaleArgs({"major"}, {"C"}, {0}, {2}),
                           b \in TimingArgs})

InitScale ==
    InitWith({Join(s, b) :
                s \in ScaleArgs(DOMAIN SCALE_DICT, DOMAIN BASE_NOTE, -1..1,
                                0..MaxOctRange),
                b \in {x \in TimingArgs :
                         x.beat = 4 /\ x.max_length = 1 /\ EqTrue(x.rand_beat)}})

\* build_melody(scale, tracks, note_deviance, beat, max_length, rand_beat,
\* velocity, rests, save_path) called once, with the scale get_scale returns
InitCall ==
    /\ args \in {Join(s, b) : s \in ScaleArgs({"major"}, {"C"}, {0}, {1}),
                              b \in CallArgs}
    /\ pc = "batch"
    /\ SCALE = get_scale("major", BASE_NOTE["C"])
    /\ oct = 1
    /\ i = 0
    /\ mid = <<>>
    /\ v = 0
    /\ total_steps = 0
    /\ timings = <<>>
    /\ melody = <<>>

----------------------------------------------------------------------------
(* The main block, lines 233-239 *)

ScaleBase ==
    /\ pc = "main"
    /\ SCALE' = OctaveShift(args.octave, get_scale(args.scale, BASE_NOTE[args.key]))
    /\ oct' = 1
    /\ pc' = IF args.oct_range # 1 /\ 1 < args.oct_range THEN "octave" ELSE "batch"
    /\ UNCHANGED <<args, i, mid, v, total_steps, timings, melody>>

OctaveStep ==
    /\ pc = "octave"
    /\ oct < args.oct_range
    /\ SCALE' = SCALE \o OctaveReplica(oct, SCALE)
    /\ oct' = oct + 1
    /\ pc' = IF oct + 1 < args.oct_range THEN "octave" ELSE "batch"
    /\ UNCHANGED <<args, i, mid, v, total_steps, timings, melody>>

(* The file loop, lines 256-260, and build_melody *)

\* line 137
BuildMelody ==
    /\ pc = "batch"
    /\ i < args.n
    /\ mid' = <<>>
    /\ v' = 0
    /\ pc' = "tracks"
    /\ UNCHANGED <<args, SCALE, oct, i, total_steps, timings, melody>>

\* lines 139-142 and 79-83
TrackLoop ==
    /\ pc = "tracks"
    /\ v < args.tracks
    /\ total_steps' = args.beat * args.max_length
    /\ IF EqTrue(args.rand_beat)
       THEN /\ timings' = <<>>
            /\ pc' = IF LoopContinues(total_steps') THEN "timings" ELSE "melody"
       ELSE /\ NotesSoFar + args.max_length <= MaxNotes
            /\ timings' = UniformTimings(args.beat, args.max_length)
            /\ pc' = "melody"
    /\ UNCHANGED <<args, SCALE, oct, i, mid, v, melody>>

\* lines 84-87
TimingStep ==
    /\ pc = "timings"
    /\ LoopContinues(total_steps)
    /\ NotesSoFar + Len(timings) < MaxNotes
    /\ \E k \in 1..5 :
         LET duration == BEATS(args.beat)[k] IN
           /\ total_steps' = total_steps - duration
           /\ timings' = Append(timings, duration)
    /\ pc' = IF LoopContinues(total_steps') THEN "timings" ELSE "melody"
    /\ UNCHANGED <<args, SCALE, oct, i, mid, v, melody>>

\* line 143
GenMelody ==
    /\ pc = "melody"
    /\ \E picks \in [1..Len(timings) -> PickPositions \cap (1..Len(SCALE))],
          px \in [1..Len(timings) -> PxDraws],
          dirs \in [1..Len(timings) -> Directions] :
         melody' = gen_melody(SCALE, timings, args.note_dev, picks, px, dirs)
    /\ pc' = "assemble"
    /\ UNCHANGED <<args, SCALE, oct, i, mid, v, total_steps, timings>>

\* lines 140-141 and 145-159
Assemble ==
    /\ pc = "assemble"
    /\ mid' = Append(mid, AssembleTrack(melody, timings, args.vel, args.rests))
    /\ v' = v + 1
    /\ pc' = "tracks"
    /\ UNCHANGED <<args, SCALE, oct, i, total_steps, timings, melody>>

\* line 160
Save ==
    /\ pc = "tracks"
    /\ v >= args.tracks
    /\ i' = i + 1
    /\ pc' = "batch"
    /\ UNCHANGED <<args, SCALE, oct, mid, v, total_steps, timings, melody>>

Next ==
    \/ ScaleBase
    \/ OctaveStep
    \/ BuildMelody
    \/ TrackLoop
    \/ TimingStep
    \/ GenMelody
    \/ Assemble
    \/ Save

Spec == Init /\ [][Next]_vars

NextScale ==
    \/ ScaleBase
    \/ OctaveStep

SpecScale == InitScale /\ [][NextScale]_vars

NextTimings ==
    \/ ScaleBase
    \/ OctaveStep
    \/ BuildMelody
    \/ TrackLoop
    \/ TimingStep

SpecTimings == InitTimings /\ [][NextTimings]_vars

NextCall ==
    \/ BuildMelody
    \/ TrackLoop
    \/ TimingStep
    \/ GenMelody
    \/ Assemble
    \/ Save

SpecCall == InitCall /\ [][NextCall]_vars

----------------------------------------------------------------------------
(* Properties *)

budget == args.beat * args.max_length

\* a track has just been assembled from the current timings and melody
TrackAssembled == pc = "tracks" /\ mid # <<>>
LastTrack == mid[Len(mid)]
OnEvent(track, j) == track[2 * j - 1]
OffEvent(track, j) == track[2 * j]

\* get_timings has returned
TimingsReturned == pc = "melody"

\* C1 as stated: with rests = true the first on-event has time 0 and the
\* on-event of every later note has the duration of the note before it alone.
C1_ResetCursor ==
    (TrackAssembled /\ EqTrue(args.rests)) =>
        \A j \in 1..Len(timings) :
            OnEvent(LastTrack, j).time = IF j = 1 THEN 0 ELSE timings[j - 1]

\* C1 amended: with rests = true the first on-event has time 0 and the
\* on-event of every later note i has the sum of the durations of all the
\* notes before it (the cursor accumulates, t += timing).
C1_AccumulatedCursor ==
    (TrackAssembled /\ EqTrue(args.rests)) =>
        \A j \in 1..Len(timings) :
            OnEvent(LastTrack, j).time = SumSeq(SubSeq(timings, 1, j - 1))

C1_Witness ==
    /\ TrackAssembled /\ EqTrue(args.rests)
    /\ Len(timings) >= 3
    /\ OnEvent(LastTrack, 1).time = 0
    /\ OnEvent(LastTrack, 3).time = timings[1] + timings[2]
    /\ OnEvent(LastTrack, 3).time # timings[2]

\* C2 as stated: for octave_range R >= 1 the pitch set has R * len(pattern) + 1
\* elements and starts with the pitch set of R = 1.
C2_ReplicatedLength ==
    (pc = "batch" /\ args.oct_range >= 1) =>
        /\ Len(SCALE) = args.oct_range * Len(SCALE_DICT[args.scale]) + 1
        /\ SubSeq(SCALE, 1, Len(SCALE_DICT[args.scale]) + 1)
             = OctaveShift(args.octave, get_scale(args.scale, BASE_NOTE[args.key]))

\* C3: in random mode the returned durations sum to at least the budget and
\* all but the last sum to less than the budget.
C3_BudgetExhaustedByLast ==
    (TimingsReturned /\ EqTrue(args.rand_beat)) =>
        /\ SumSeq(timings) >= budget
        /\ SumSeq(ButLast(timings)) < budget

C3_Witness ==
    /\ TimingsReturned /\ EqTrue(args.rand_beat)
    /\ Len(timings) >= 2
    /\ SumSeq(timings) > budget
    /\ SumSeq(ButLast(timings)) < budget

\* C4 as stated: the melody is as long as the timing sequence, and with
\* note_deviance = 0 every pitch of it is a member of the pitch set, whatever
\* the uniform draws are.
C4_NoDevianceStaysInScale ==
    (pc = "assemble") =>
        /\ Len(melody) = Len(timings)
        /\ (args.note_dev = 0 => \A k \in 1..Len(melody) : melody[k] \in Range(SCALE))

\* C5: the composition has num_tracks tracks; a track has two events per entry
\* of its own timing sequence, alternating on, off, the off-event with the
\* pitch and velocity of the on-event before it, the pairs in melody order.
C5_TrackShape ==
    /\ (pc = "batch" /\ i > 0) => Len(mid) = args.tracks
    /\ Len(mid) = v
    /\ TrackAssembled =>
         /\ Len(LastTrack) = 2 * Len(timings)
         /\ \A j \in 1..Len(timings) :
              /\ OnEvent(LastTrack, j).type = "note_on"
              /\ OffEvent(LastTrack, j).type = "note_off"
              /\ OnEvent(LastTrack, j).note = melody[j]
              /\ OffEvent(LastTrack, j).note = OnEvent(LastTrack, j).note
              /\ OffEvent(LastTrack, j).velocity = OnEvent(LastTrack, j).velocity
              /\ OnEvent(LastTrack, j).velocity = args.vel

C5_Witness ==
    /\ pc = "batch" /\ i > 0
    /\ EqTrue(args.rests)
    /\ args.tracks = 2 /\ Len(mid) = 2
    /\ Len(mid[1]) = 2 /\ Len(mid[2]) = 4
    /\ mid[2][1].note # mid[2][3].note

\* C6: with rests = false (whenever rests == True does not hold, which is
\* every run from the command line) every on-event has time 1 and every
\* off-event has time duration + 1.
C6_PlainDeltas ==
    (TrackAssembled /\ ~EqTrue(args.rests)) =>
        \A j \in 1..Len(timings) :
            /\ OnEvent(LastTrack, j).time = 1
            /\ OffEvent(LastTrack, j).time = timings[j] + 1

C6_Witness ==
    /\ TrackAssembled /\ ~EqTrue(args.rests)
    /\ Len(timings) >= 2
    /\ timings[1] # timings[2]
    /\ OnEvent(LastTrack, 2).time = 1
    /\ OffEvent(LastTrack, 2).time = timings[2] + 1

\* C8 as stated: in both timing modes the durations returned by get_timings
\* sum to at most beat * max_length.
C8_PhraseWithinMaxLength ==
    TimingsReturned => SumSeq(timings) <= budget

\* C9 as stated: every duration of the vocabulary is strictly positive, so the
\* random timing loop ends within a bounded number of steps (each step lowers
\* the remaining budget by at least one tick, so there are at most
\* beat * max_length of them).
C9_PositiveDurationsBoundedLoop ==
    (pc \in {"timings", "melody"} /\ EqTrue(args.rand_beat)) =>
        /\ \A k \in 1..Len(BEATS(args.beat)) : BEATS(args.beat)[k] > 0
        /\ Len(timings) <= budget

\* C10 as stated: for octave_range R >= 1 the final pitch set is
\* non-decreasing.
C10_NonDecreasing ==
    (pc = "batch" /\ args.oct_range >= 1) =>
        \A k \in 2..Len(SCALE) : SCALE[k] >= SCALE[k - 1]

====
